---- MODULE Spec2Model ----
(***************************************************************************)
(* A model of the persistent, structurally shared singly-linked list of    *)
(* src/src/third.rs: List handles, Arc-counted nodes, the iterative Drop   *)
(* and the borrowing reader Iter.                                          *)
(*                                                                         *)
(* Node identities are never reused: the i-th node ever allocated has      *)
(* identity i, so a dangling link stays visible as a link to a node that   *)
(* is no longer allocated.                                                 *)
(*                                                                         *)
(* The List values in scope are kept as a sequence in order of creation,   *)
(* and so are the Iter values: a handle is named by its position, a new    *)
(* value is appended, and a value that is dropped leaves the sequence (the *)
(* values after it move down by one).                                      *)
(***************************************************************************)
EXTENDS Integers, Sequences, FiniteSets, TLC

\* Bounds of the model.
MaxNodes == 3
MaxHandles == 3
MaxIters == 2
MaxElem == 2

NodeIds == 1..MaxNodes
Elems == 1..MaxElem

VARIABLES
    nodes,      \* the heap: node identity -> [alloc, elem, next, strong]
    created,    \* how many nodes were ever allocated (Arc::new calls)
    lists,      \* the List values in scope: a sequence of [head]
    iters,      \* the Iter values in scope: a sequence of [next, of]
    last,       \* the last call made and what it gave back
    built,      \* history: per handle, the elements prepended to make its list, oldest first
    yielded,    \* history: per reader, the elements its next() calls returned so far
    drops       \* the calls of drop in progress, one per thread: a sequence of
                \* [self, head, pc, depth, steps, len]

vars == <<nodes, created, lists, iters, last, built, yielded, drops>>

\* The handles and the readers in scope.
Handles == DOMAIN lists
Readers == DOMAIN iters

\* How many List values exist: those held and those inside a call of drop.
Existing == Len(lists) + Len(drops)

\* Option<T>: None and Some(v).
None == <<>>
Some(v) == <<v>>

\* Link<T> = Option<Arc<Node<T>>>: 0 is None, n > 0 is Some(pointer to node n).
NoLink == 0

\* The storage of a node that is not allocated (never was, or was destroyed).
FreeNode == [alloc |-> FALSE, elem |-> 0, next |-> NoLink, strong |-> 0]

\* What is kept of the last call: the operation and what it gave back (the
\* Option returned by head and next; for drop, how many nodes its loop
\* destroyed and the node it stopped at; None otherwise).
Call(op, ret) == [op |-> op, ret |-> ret]

NoCall == Call("init", None)

\* A sequence without its i-th value.
RemoveAt(seq, i) ==
    [j \in 1..(Len(seq) - 1) |-> IF j < i THEN seq[j] ELSE seq[j + 1]]

Init ==
    /\ nodes = [n \in NodeIds |-> FreeNode]
    /\ created = 0
    /\ lists = <<>>
    /\ iters = <<>>
    /\ last = NoCall
    /\ built = <<>>
    /\ yielded = <<>>
    /\ drops = <<>>

----
\* Arc<Node<T>>

\* A slip: the link is copied without counting the new reference.
LinkCloneUncounted(ns, link) == ns

\* Arc::clone on a Link: one more strong reference to the node, if there is one.
LinkClone(ns, link) ==
    IF link = NoLink THEN ns
    ELSE [ns EXCEPT ![link].strong = @ + 1]

\* Dropping one Arc<Node<T>>: the strong count goes down by one, and the holder
\* of the last reference destroys the node, which drops the node's own next
\* link in turn (the compiler's drop glue for Node).
RECURSIVE ArcDrop(_, _)
ArcDrop(ns, link) ==
    IF link = NoLink THEN ns
    ELSE IF ns[link].strong > 1
         THEN [ns EXCEPT ![link].strong = @ - 1]
         ELSE ArcDrop([ns EXCEPT ![link] = FreeNode], ns[link].next)

----
\* impl List

\* A slip: an empty list answers with a sentinel element instead of None.
HeadOfSentinel(ns, link) ==
    IF link = NoLink THEN Some(0) ELSE Some(ns[link].elem)

\* List::head: the element of the head node, if any.
HeadOf(ns, link) ==
    IF link = NoLink THEN None ELSE Some(ns[link].elem)

\* A slip: the tail of a one-element list is that list again, never empty.
TailLinkSticky(ns, link) ==
    IF link = NoLink THEN NoLink
    ELSE IF ns[link].next = NoLink THEN link ELSE ns[link].next

\* The link List::tail returns: the head node's next link, None for an empty list.
TailLink(ns, link) ==
    IF link = NoLink THEN NoLink ELSE ns[link].next

\* let list = List::new();
ListNew ==
    /\ Existing < MaxHandles
    /\ lists' = Append(lists, [head |-> NoLink])
    /\ built' = Append(built, <<>>)
    /\ last' = Call("new", None)
    /\ UNCHANGED <<nodes, created, iters, yielded, drops>>

\* A slip: the new node is built with next: None.
PrependNodesUnlinked(ns, n, e, link) ==
    [ns EXCEPT ![n] = [alloc |-> TRUE, elem |-> e, next |-> NoLink, strong |-> 1]]

\* A slip: the new node's next link is the new node itself.
PrependNodesLooped(ns, n, e, link) ==
    [ns EXCEPT ![n] = [alloc |-> TRUE, elem |-> e, next |-> n, strong |-> 2]]

\* A slip: the new node takes the receiver's head link without cloning it.
PrependNodesUncounted(ns, n, e, link) ==
    [ns EXCEPT ![n] = [alloc |-> TRUE, elem |-> e, next |-> link, strong |-> 1]]

\* The heap after Arc::new(Node { elem, next: link.clone() }) made node n.
PrependNodes(ns, n, e, link) ==
    [LinkClone(ns, link) EXCEPT
        ![n] = [alloc |-> TRUE, elem |-> e, next |-> link, strong |-> 1]]

\* T is opaque to the list (no code reads, compares or changes an elem), so
\* element values are interchangeable: the i-th prepend ever made draws its
\* element from the first i values, which keeps one run of every class of runs
\* that differ only by a renaming of the values.
PrependElems == {e \in Elems : e <= created + 1}

\* let list = lists[s].prepend(e);
ListPrepend(s, e) ==
    /\ Existing < MaxHandles
    /\ created < MaxNodes
    /\ e \in PrependElems
    /\ LET n == created + 1 IN
        /\ nodes' = PrependNodes(nodes, n, e, lists[s].head)
        /\ created' = n
        /\ lists' = Append(lists, [head |-> n])
    /\ built' = Append(built, Append(built[s], e))
    /\ last' = Call("prepend", None)
    /\ UNCHANGED <<iters, yielded, drops>>

\* let list = lists[s].tail();
ListTail(s) ==
    /\ Existing < MaxHandles
    /\ LET link == TailLink(nodes, lists[s].head) IN
        /\ nodes' = LinkClone(nodes, link)
        /\ lists' = Append(lists, [head |-> link])
    /\ built' = Append(built, IF built[s] = <<>> THEN <<>>
                              ELSE SubSeq(built[s], 1, Len(built[s]) - 1))
    /\ last' = Call("tail", None)
    /\ UNCHANGED <<created, iters, yielded, drops>>

\* lists[s].head()
ListHead(s) ==
    /\ last' = Call("head", HeadOf(nodes, lists[s].head))
    /\ UNCHANGED <<nodes, created, lists, iters, built, yielded, drops>>

----
\* impl Drop for List

\* A slip: the loop destroys every node of the chain, shared or not.
RECURSIVE DropLoopAll(_, _, _)
DropLoopAll(ns, link, k) ==
    IF link = NoLink
    THEN [nodes |-> ns, freed |-> k, stop |-> NoLink]
    ELSE DropLoopAll([ns EXCEPT ![link] = FreeNode], ns[link].next, k + 1)

\* A slip: no loop. A uniquely held head node is destroyed and its next link
\* is forgotten instead of released.
DropLoopOnce(ns, link, k) ==
    IF link = NoLink
    THEN [nodes |-> ns, freed |-> k, stop |-> NoLink]
    ELSE IF ns[link].strong = 1
         THEN [nodes |-> [ns EXCEPT ![link] = FreeNode], freed |-> k + 1,
               stop |-> NoLink]
         ELSE [nodes |-> ArcDrop(ns, link), freed |-> k, stop |-> link]

\* A slip: on a shared node the loop breaks and forgets the Arc it holds
\* instead of dropping it.
RECURSIVE DropLoopForget(_, _, _)
DropLoopForget(ns, link, k) ==
    IF link = NoLink
    THEN [nodes |-> ns, freed |-> k, stop |-> NoLink]
    ELSE IF ns[link].strong = 1
         THEN DropLoopForget([ns EXCEPT ![link] = FreeNode], ns[link].next, k + 1)
         ELSE [nodes |-> ns, freed |-> k, stop |-> link]

\* A slip: next is taken from the node before try_unwrap is tried, so a shared
\* node loses its next link.
RECURSIVE DropLoopDetach(_, _, _)
DropLoopDetach(ns, link, k) ==
    IF link = NoLink
    THEN [nodes |-> ns, freed |-> k, stop |-> NoLink]
    ELSE IF ns[link].strong = 1
         THEN DropLoopDetach([ns EXCEPT ![link] = FreeNode], ns[link].next, k + 1)
         ELSE [nodes |-> [ArcDrop(ns, link) EXCEPT ![link].next = NoLink],
               freed |-> k, stop |-> link]

\* The while-let loop of drop, started with the local `head` = link: the final
\* heap, the number of nodes the loop unwrapped, and the node it stopped at.
RECURSIVE DropLoop(_, _, _)
DropLoop(ns, link, k) ==
    IF link = NoLink
    THEN [nodes |-> ns, freed |-> k, stop |-> NoLink]
    ELSE IF ns[link].strong = 1
         \* try_unwrap is Ok: the node is moved out, its next is taken into
         \* `head`, and the node (its next now None) is destroyed.
         THEN DropLoop([ns EXCEPT ![link] = FreeNode], ns[link].next, k + 1)
         \* try_unwrap is Err: break; the Arc handed back in Err is dropped.
         ELSE [nodes |-> ArcDrop(ns, link), freed |-> k, stop |-> link]

\* The readers once handle h has left the sequence of handles.
Rebased(its, h) ==
    [r \in DOMAIN its |->
        IF its[r].of > h THEN [its[r] EXCEPT !.of = @ - 1] ELSE its[r]]

\* drop(lists[h]): the handle leaves scope. No reader borrows it (an
\* Iter<'a, T> holds a &'a List<T>).
ListDrop(h) ==
    /\ \A r \in Readers : iters[r].of # h
    /\ LET res == DropLoop(nodes, lists[h].head, 0) IN
        /\ nodes' = res.nodes
        /\ last' = Call("drop", <<res.freed, res.stop>>)
    /\ lists' = RemoveAt(lists, h)
    /\ built' = RemoveAt(built, h)
    /\ iters' = Rebased(iters, h)
    /\ UNCHANGED <<created, yielded, drops>>

----
\* Iter

\* Option<Arc<Node>>::as_deref on a node's next link: the node it points to.
NodeNext(ns, n) == ns[n].next

\* A slip: iter() clones the head Arc instead of borrowing the node.
ListIterCounted(s) ==
    /\ Len(iters) < MaxIters
    /\ iters' = Append(iters, [next |-> lists[s].head, of |-> s])
    /\ yielded' = Append(yielded, <<>>)
    /\ last' = Call("iter", None)
    /\ nodes' = LinkClone(nodes, lists[s].head)
    /\ UNCHANGED <<created, lists, built, drops>>

\* let iter = lists[s].iter();
ListIter(s) ==
    /\ Len(iters) < MaxIters
    /\ iters' = Append(iters, [next |-> lists[s].head, of |-> s])
    /\ yielded' = Append(yielded, <<>>)
    /\ last' = Call("iter", None)
    /\ UNCHANGED <<nodes, created, lists, built, drops>>

\* A slip: a next() that returns None puts the reader back on the oldest node.
IterStepRewind(ns, cur) ==
    IF cur = NoLink
    THEN [ret |-> None, next |-> IF ns[1].alloc THEN 1 ELSE NoLink]
    ELSE [ret |-> Some(ns[cur].elem), next |-> ns[cur].next]

\* A slip: the item is returned but self.next is not advanced.
IterStepStuck(ns, cur) ==
    IF cur = NoLink
    THEN [ret |-> None, next |-> NoLink]
    ELSE [ret |-> Some(ns[cur].elem), next |-> cur]

\* The body of Iter::next with self.next = cur: the item returned and the new
\* self.next.
IterStep(ns, cur) ==
    IF cur = NoLink
    THEN [ret |-> None, next |-> NoLink]
    ELSE [ret |-> Some(ns[cur].elem), next |-> NodeNext(ns, cur)]

\* iters[r].next()
IterNext(r) ==
    /\ LET step == IterStep(nodes, iters[r].next) IN
        /\ iters' = [iters EXCEPT ![r].next = step.next]
        /\ yielded' = [yielded EXCEPT ![r] = @ \o step.ret]
        /\ last' = Call("next", step.ret)
    /\ UNCHANGED <<nodes, created, lists, built, drops>>

\* iters[r] leaves scope: the borrow of its list ends.
IterDrop(r) ==
    /\ iters' = RemoveAt(iters, r)
    /\ yielded' = RemoveAt(yielded, r)
    /\ last' = Call("enditer", None)
    /\ UNCHANGED <<nodes, created, lists, built, drops>>

----
\* The operations on List values alone: no reader is ever made, so no borrow
\* holds back a drop.
Next ==
    \/ ListNew
    \/ \E s \in Handles, e \in Elems : ListPrepend(s, e)
    \/ \E s \in Handles : ListTail(s)
    \/ \E s \in Handles : ListHead(s)
    \/ \E h \in Handles : ListDrop(h)

Spec == Init /\ [][Next]_vars

\* Lists built by new and prepend and held, read by Iter readers.
NextIter ==
    \/ ListNew
    \/ \E s \in Handles, e \in Elems : ListPrepend(s, e)
    \/ \E s \in Handles : ListIter(s)
    \/ \E r \in Readers : IterNext(r)
    \/ \E r \in Readers : IterDrop(r)

SpecIter == Init /\ [][NextIter]_vars

----
\* What the claims read of a state.

\* The elements a reader started at link yields until its next() returns None
\* (at most fuel of them).
RECURSIVE IterElemsN(_, _, _)
IterElemsN(ns, cur, fuel) ==
    LET step == IterStep(ns, cur) IN
    IF fuel = 0 \/ step.ret = None THEN <<>>
    ELSE step.ret \o IterElemsN(ns, step.next, fuel - 1)

IterElems(ns, link) == IterElemsN(ns, link, MaxNodes + 1)

\* What the (k+1)-th next() of a reader started at cur returns.
RECURSIVE IterRetN(_, _, _)
IterRetN(ns, cur, k) ==
    IF k = 0 THEN IterStep(ns, cur).ret
    ELSE IterRetN(ns, IterStep(ns, cur).next, k - 1)

\* The nodes met by following next links from link, in order (at most fuel).
RECURSIVE ChainN(_, _, _)
ChainN(ns, link, fuel) ==
    IF fuel = 0 \/ link = NoLink THEN <<>>
    ELSE <<link>> \o ChainN(ns, ns[link].next, fuel - 1)

Chain(ns, link) == ChainN(ns, link, MaxNodes + 1)

\* The set of those nodes.
RECURSIVE ReachN(_, _, _)
ReachN(ns, link, fuel) ==
    IF fuel = 0 \/ link = NoLink THEN {}
    ELSE {link} \cup ReachN(ns, ns[link].next, fuel - 1)

Reach(ns, link) == ReachN(ns, link, MaxNodes + 1)

Allocated == {n \in NodeIds : nodes[n].alloc}

\* The references to node n that exist in a state: the handles whose head it
\* is and the allocated nodes whose next it is.
Holders(ns, ls, n) ==
    Cardinality({h \in DOMAIN ls : ls[h].head = n})
    + Cardinality({m \in NodeIds : ns[m].alloc /\ ns[m].next = n})

\* The link held by the handle that k successive tail() calls give, from a
\* handle that holds link.
RECURSIVE NthTail(_, _, _)
NthTail(ns, link, k) ==
    IF k = 0 THEN link ELSE NthTail(ns, TailLink(ns, link), k - 1)

Reverse(seq) == [i \in 1..Len(seq) |-> seq[Len(seq) + 1 - i]]

\* The references to node n that exist while threads ds are inside drop: those
\* of the handles and the nodes, and the local `head` of each thread (the Arc
\* its loop, its break or the drop glue it runs is holding).
Refs(ns, ls, ds, n) ==
    Holders(ns, ls, n) + Cardinality({d \in DOMAIN ds : ds[d].head = n})

\* Where handle g is found once handle h has left the sequence of handles.
After(g, h) == IF g > h THEN g - 1 ELSE g

----
\* impl Drop for List, one atomic access to a reference count per step: handles
\* that share nodes are dropped by different threads at once.

\* The threads that are inside drop.
Threads == DOMAIN drops

\* A slip: try_unwrap gives Ok whatever the count is.
TryUnwrapAny(ns, link) == TRUE

\* Arc::try_unwrap on the node of link: Ok only for the one strong reference
\* (a compare-and-swap of the count from 1).
TryUnwrap(ns, link) == ns[link].strong = 1

\* Dropping an Arc: fetch_sub(1) on the strong count gave 1, so this was the last
\* reference.
WasLast(ns, link) == ns[link].strong = 1

\* A slip: the Arc of the Err is forgotten, its count never given back.
ReleasedNot(ns, link) == ns

\* The heap after fetch_sub(1) on the strong count of a node that others hold.
Released(ns, link) == [ns EXCEPT ![link].strong = @ - 1]

\* The heap once the node of link is destroyed.
Destroyed(ns, link) == [ns EXCEPT ![link] = FreeNode]

\* What is kept of a call of drop that returned: self.head, the number of
\* iterations of its loop, and the length its chain had when it began.
Dropped(t) == Call("dropped", <<t.self, t.steps, t.len>>)

\* A thread calls drop(lists[h]): the handle leaves scope, and
\* `let mut head = self.head.take()` moves its link into the local `head`.
DropBegin(h) ==
    /\ \A r \in Readers : iters[r].of # h
    /\ drops' = Append(drops, [self |-> NoLink, head |-> lists[h].head,
                               pc |-> "loop", depth |-> 0, steps |-> 0,
                               len |-> Len(Chain(nodes, lists[h].head))])
    /\ lists' = RemoveAt(lists, h)
    /\ built' = RemoveAt(built, h)
    /\ iters' = Rebased(iters, h)
    /\ last' = Call("take", None)
    /\ UNCHANGED <<nodes, created, yielded>>

\* A slip: on Err the loop puts the Arc back in `head` and tries again instead
\* of breaking.
DropIterateRetry(d) ==
    /\ drops[d].pc = "loop"
    /\ LET cur == drops[d].head IN
        IF cur = NoLink
        THEN /\ drops' = RemoveAt(drops, d)
             /\ last' = Dropped(drops[d])
             /\ UNCHANGED nodes
        ELSE IF TryUnwrap(nodes, cur)
        THEN /\ nodes' = Destroyed(nodes, cur)
             /\ drops' = [drops EXCEPT ![d].head = nodes[cur].next,
                                       ![d].steps = @ + 1]
             /\ last' = Call("unwrap", None)
        ELSE /\ drops' = [drops EXCEPT ![d].steps = @ + 1]
             /\ last' = Call("unwrap", None)
             /\ UNCHANGED nodes
    /\ UNCHANGED <<created, lists, iters, built, yielded>>

\* One turn of `while let Some(node) = head`: with None the loop ends and drop
\* returns; otherwise Arc::try_unwrap(node). On Ok the node is moved out, its
\* next is taken into `head` and the node is destroyed with next: None. On Err
\* the thread holds the Arc it was handed back, to be dropped at the break.
DropIterate(d) ==
    /\ drops[d].pc = "loop"
    /\ LET cur == drops[d].head IN
        IF cur = NoLink
        THEN /\ drops' = RemoveAt(drops, d)
             /\ last' = Dropped(drops[d])
             /\ UNCHANGED nodes
        ELSE IF TryUnwrap(nodes, cur)
        THEN /\ nodes' = Destroyed(nodes, cur)
             /\ drops' = [drops EXCEPT ![d].head = nodes[cur].next,
                                       ![d].steps = @ + 1]
             /\ last' = Call("unwrap", None)
        ELSE /\ drops' = [drops EXCEPT ![d].pc = "err", ![d].steps = @ + 1]
             /\ last' = Call("unwrap", None)
             /\ UNCHANGED nodes
    /\ UNCHANGED <<created, lists, iters, built, yielded>>

\* `else { break; }`: the Arc of the Err is dropped. While others hold the node
\* the count goes down by one and drop returns. When this was the last
\* reference (the other holders released theirs since the try_unwrap), the
\* node is destroyed by the drop glue of Node, its next link still in place:
\* the glue goes on to drop that link.
DropRelease(d) ==
    /\ drops[d].pc = "err"
    /\ LET cur == drops[d].head IN
        IF WasLast(nodes, cur)
        THEN /\ nodes' = Destroyed(nodes, cur)
             /\ drops' = [drops EXCEPT ![d].pc = "glue",
                                       ![d].head = nodes[cur].next,
                                       ![d].depth = 1]
             /\ last' = Call("release", None)
        ELSE /\ nodes' = Released(nodes, cur)
             /\ drops' = RemoveAt(drops, d)
             /\ last' = Dropped(drops[d])
    /\ UNCHANGED <<created, lists, iters, built, yielded>>

\* The drop glue of a node being destroyed drops the node's next link, inside
\* the destruction of that node: with None, or with a node others hold, the
\* nested calls return and so does drop; the last reference destroys the next
\* node in turn, one call deeper.
DropGlue(d) ==
    /\ drops[d].pc = "glue"
    /\ LET cur == drops[d].head IN
        IF cur = NoLink
        THEN /\ drops' = RemoveAt(drops, d)
             /\ last' = Dropped(drops[d])
             /\ UNCHANGED nodes
        ELSE IF WasLast(nodes, cur)
        THEN /\ nodes' = Destroyed(nodes, cur)
             /\ drops' = [drops EXCEPT ![d].head = nodes[cur].next,
                                       ![d].depth = @ + 1]
             /\ last' = Call("glue", None)
        ELSE /\ nodes' = Released(nodes, cur)
             /\ drops' = RemoveAt(drops, d)
             /\ last' = Dropped(drops[d])
    /\ UNCHANGED <<created, lists, iters, built, yielded>>

\* Lists made by new, prepend and tail, and dropped by threads whose steps
\* interleave with one another and with the calls on the handles still held.
\* No step of drop reads an element, so every element prepended is the same.
NextConc ==
    \/ ListNew
    \/ \E s \in Handles : ListPrepend(s, 1)
    \/ \E s \in Handles : ListTail(s)
    \/ \E h \in Handles : DropBegin(h)
    \/ \E d \in Threads : DropIterate(d)
    \/ \E d \in Threads : DropRelease(d)
    \/ \E d \in Threads : DropGlue(d)

SpecConc == Init /\ [][NextConc]_vars

\* A step of the thread at position d of those inside drop.
ThreadStep(d) ==
    /\ d \in Threads
    /\ (DropIterate(d) \/ DropRelease(d) \/ DropGlue(d))

\* The threads are scheduled: a thread inside drop is not held back for ever.
\* (A thread keeps its position, or moves down when an older one returns.)
FairConc ==
    SpecConc /\ \A d \in 1..MaxHandles : WF_vars(ThreadStep(d))

----
\* C1: for every list L and element e, L.prepend(e).head() is Some(e) and
\* L.prepend(e).tail() has exactly the element sequence of L. Every prepend step
\* is checked: the head and the tail of the handle it returned are computed in
\* the state after the call and compared with L as it read before the call
\* (and as it reads after it).
C1_PrependStep ==
    last'.op = "prepend" =>
        \A s \in Handles, e \in Elems :
            ListPrepend(s, e) =>
                LET d == Len(lists')
                    t == TailLink(nodes', lists'[d].head)
                IN  /\ HeadOf(nodes', lists'[d].head) = Some(e)
                    /\ IterElems(nodes', t) = IterElems(nodes, lists[s].head)
                    /\ IterElems(nodes', t) = IterElems(nodes', lists'[s].head)
                    /\ IterElems(nodes', lists'[d].head)
                         = <<e>> \o IterElems(nodes, lists[s].head)

\* C1, over every step: L.prepend(e).head() = Some(e) and L.prepend(e).tail()
\* reads as L.
C1_PrependHeadTail == [][C1_PrependStep]_vars

\* A prepend onto a non-empty list has just returned: the newest handle holds
\* the node made last, which links to the head of a list an older handle holds.
C1_Witness ==
    /\ last.op = "prepend"
    /\ lists[Len(lists)].head = created
    /\ nodes[created].next # NoLink
    /\ \E s \in Handles : lists[s].head = nodes[created].next

\* C2: persistence under drop. Dropping one handle leaves what every other held
\* handle reads (its head(), the elements of its tail(), the elements its iter()
\* yields) exactly as it was before the drop, whatever nodes the handles share.
C2_DropStep ==
    last'.op = "drop" =>
        \A h \in Handles :
            ListDrop(h) =>
                \A g \in Handles \ {h} :
                    LET g2 == After(g, h) IN
                    /\ lists'[g2] = lists[g]
                    /\ HeadOf(nodes', lists'[g2].head) = HeadOf(nodes, lists[g].head)
                    /\ IterElems(nodes', lists'[g2].head)
                         = IterElems(nodes, lists[g].head)
                    /\ IterElems(nodes', TailLink(nodes', lists'[g2].head))
                         = IterElems(nodes, TailLink(nodes, lists[g].head))

\* C2, over every step: a drop changes nothing that another held handle reads.
C2_PersistenceUnderDrop == [][C2_DropStep]_vars

\* A branch was just dropped: the drop destroyed the branch's own node and
\* stopped at a node that a handle still held reads through, past its own head.
C2_Witness ==
    /\ last.op = "drop"
    /\ last.ret[1] >= 1
    /\ last.ret[2] # NoLink
    /\ \E g \in Handles :
        /\ last.ret[2] \in Reach(nodes, lists[g].head)
        /\ lists[g].head # last.ret[2]

\* C3: no use-after-free. Every node reachable by next links from the head of a
\* live handle is allocated, and no allocated node or live handle holds a link
\* to a node that is not allocated (a node is destroyed only once nothing
\* references it).
C3_NoUseAfterFree ==
    /\ \A h \in Handles :
        /\ lists[h].head # NoLink => nodes[lists[h].head].alloc
        /\ Reach(nodes, lists[h].head) \subseteq Allocated
    /\ \A n \in Allocated :
        nodes[n].next # NoLink => nodes[nodes[n].next].alloc

\* A drop has destroyed nodes while another handle still holds a non-empty list.
C3_Witness ==
    /\ last.op = "drop"
    /\ last.ret[1] >= 1
    /\ \E g \in Handles : lists[g].head # NoLink

\* C4: no leak. Every allocated node is reachable from some live handle; so
\* once every handle has been dropped, no node is allocated.
C4_NoLeak ==
    /\ Allocated \subseteq UNION {Reach(nodes, lists[h].head) : h \in Handles}
    /\ Handles = {} => Allocated = {}

\* The last handle was just dropped, after at least two nodes had been made.
C4_Witness ==
    /\ last.op = "drop"
    /\ Handles = {}
    /\ created >= 2
    /\ Allocated = {}

\* C5: iter() over a list built by prepending e1, ..., en onto the empty list
\* yields en, ..., e1 in that order, one element per next() call, and nothing
\* else. For every reader, the items its next() calls returned so far are the
\* first of en, ..., e1, in order; the reader is exhausted (its next() returns
\* None) exactly when it has yielded all n of them; and a next() that returned
\* None left a reader that has yielded them all.
C5_IterOrder ==
    /\ \A r \in Readers :
        LET want == Reverse(built[iters[r].of]) IN
        /\ Len(yielded[r]) <= Len(want)
        /\ yielded[r] = SubSeq(want, 1, Len(yielded[r]))
        /\ (IterStep(nodes, iters[r].next).ret = None) <=> (yielded[r] = want)
    /\ (last.op = "next" /\ last.ret = None) =>
        \E r \in Readers : yielded[r] = Reverse(built[iters[r].of])

\* A reader over a list built by prepending two different elements has yielded
\* both, newest first, and its next() has then returned None.
C5_Witness ==
    /\ last.op = "next"
    /\ last.ret = None
    /\ \E r \in Readers :
        /\ Len(built[iters[r].of]) = 2
        /\ built[iters[r].of][1] # built[iters[r].of][2]
        /\ yielded[r] = <<built[iters[r].of][2], built[iters[r].of][1]>>
        /\ iters[r].next = NoLink

\* C6: for a list of length n, n + 1 successive tail() calls give an empty list
\* (head() is None), and so does every further tail(). Checked for every handle
\* of every reachable state, n being the number of elements the handle's iter()
\* yields, for n + 1 and more successive tails.
C6_TailsReachEmpty ==
    \A h \in Handles :
        LET n == Len(IterElems(nodes, lists[h].head)) IN
        \A k \in (n + 1)..(MaxNodes + 3) :
            /\ NthTail(nodes, lists[h].head, k) = NoLink
            /\ HeadOf(nodes, NthTail(nodes, lists[h].head, k)) = None

\* tail() was just called on an empty list and returned an empty list, while a
\* list of two elements is held.
C6_Witness ==
    /\ last.op = "tail"
    /\ lists[Len(lists)].head = NoLink
    /\ \E s \in Handles : s < Len(lists) /\ lists[s].head = NoLink
    /\ \E h \in Handles : Len(IterElems(nodes, lists[h].head)) >= 2

\* C7: head() and tail() are total on an empty list. head() of an empty list
\* returns None and changes nothing; tail() of an empty list returns an empty
\* list (whose head() is None), allocates no node and changes no node and no
\* existing handle; and both calls can be made on every handle in every state
\* (tail(), whenever one more handle fits the model).
C7_EmptyStep ==
    /\ last'.op = "head" =>
        \A s \in Handles :
            (ListHead(s) /\ lists[s].head = NoLink) =>
                /\ last'.ret = None
                /\ UNCHANGED <<nodes, created, lists, iters>>
    /\ last'.op = "tail" =>
        \A s \in Handles :
            (ListTail(s) /\ lists[s].head = NoLink) =>
                /\ lists'[Len(lists')].head = NoLink
                /\ HeadOf(nodes', lists'[Len(lists')].head) = None
                /\ Len(lists') = Len(lists) + 1
                /\ SubSeq(lists', 1, Len(lists)) = lists
                /\ UNCHANGED <<nodes, created, iters>>

C7_Total ==
    \A s \in Handles :
        /\ ENABLED ListHead(s)
        /\ Existing < MaxHandles => ENABLED ListTail(s)

\* C7, over every step and every state: head() and tail() of an empty list give
\* None and an empty list, change nothing, and can always be called.
C7_EmptyListTotal == [][C7_EmptyStep]_vars /\ []C7_Total

\* tail() was just called on a list made by List::new() (no node was ever
\* allocated) and returned an empty list.
C7_Witness ==
    /\ last.op = "tail"
    /\ created = 0
    /\ Len(lists) >= 2
    /\ lists[Len(lists)].head = NoLink

\* C8: prepend(e) leaves every existing handle, the receiver included, with the
\* head it had; allocates exactly one node; the new node holds e and its next
\* link is the receiver's head node itself; no existing node's element or next
\* link changes, and no reference count changes but the old head's, which grows
\* by one.
C8_PrependStep ==
    last'.op = "prepend" =>
        \A s \in Handles, e \in Elems :
            ListPrepend(s, e) =>
                LET n == created'
                    old == lists[s].head
                IN  /\ Len(lists') = Len(lists) + 1
                    /\ SubSeq(lists', 1, Len(lists)) = lists
                    /\ lists'[Len(lists')].head = n
                    /\ created' = created + 1
                    /\ ~nodes[n].alloc
                    /\ {m \in NodeIds : nodes'[m].alloc} = Allocated \cup {n}
                    /\ nodes'[n].elem = e
                    /\ nodes'[n].next = old
                    /\ \A m \in NodeIds \ {n} :
                        nodes'[m] = IF m = old
                                    THEN [nodes[m] EXCEPT !.strong = @ + 1]
                                    ELSE nodes[m]

\* C8, over every step: prepend allocates one node linked to the receiver's own
\* head node and changes nothing else but that node's reference count.
C8_PrependFrame == [][C8_PrependStep]_vars

\* A prepend has just returned whose receiver's head node was already held
\* twice: it is now held three times, the new node being one holder.
C8_Witness ==
    /\ last.op = "prepend"
    /\ nodes[created].next # NoLink
    /\ nodes[nodes[created].next].strong = 3
    /\ Holders(nodes, lists, nodes[created].next) = 3

\* C9: tail() leaves every existing handle, the receiver included, as it was,
\* allocates no node, and returns a handle whose head is the very node the
\* receiver's head node links to; no node's element or next link changes, and
\* no reference count changes but that successor's, which grows by one.
C9_TailStep ==
    last'.op = "tail" =>
        \A s \in Handles :
            ListTail(s) =>
                LET succ == IF lists[s].head = NoLink THEN NoLink
                            ELSE nodes[lists[s].head].next
                IN  /\ Len(lists') = Len(lists) + 1
                    /\ SubSeq(lists', 1, Len(lists)) = lists
                    /\ lists'[Len(lists')].head = succ
                    /\ created' = created
                    /\ \A m \in NodeIds :
                        nodes'[m] = IF m = succ
                                    THEN [nodes[m] EXCEPT !.strong = @ + 1]
                                    ELSE nodes[m]

\* C9, over every step: tail allocates nothing, shares the successor node and
\* changes nothing but that node's reference count.
C9_TailFrame == [][C9_TailStep]_vars

\* tail() has just returned a non-empty list: the newest handle's head is the
\* node that an older handle's head node links to.
C9_Witness ==
    /\ last.op = "tail"
    /\ lists[Len(lists)].head # NoLink
    /\ \E s \in Handles :
        /\ s < Len(lists)
        /\ lists[s].head # NoLink
        /\ nodes[lists[s].head].next = lists[Len(lists)].head

\* C10: dropping a handle destroys exactly the maximal prefix of its chain
\* whose nodes have no other holder, and stops at the first node that another
\* handle or node still references: that node stays allocated with its
\* reference count one lower, and it and every other node are otherwise as they
\* were. Holders are counted on the state before the drop, from the handles
\* and the next links, not from the reference counts.
C10_DropStep ==
    last'.op = "drop" =>
        \A h \in Handles :
            ListDrop(h) =>
                LET c == Chain(nodes, lists[h].head)
                    sole == {j \in 1..Len(c) :
                                \A i \in 1..j : Holders(nodes, lists, c[i]) = 1}
                    k == Cardinality(sole)
                    gone == {c[i] : i \in 1..k}
                    stop == IF k < Len(c) THEN c[k + 1] ELSE NoLink
                IN  /\ last'.ret = <<k, stop>>
                    /\ \A m \in gone : nodes[m].alloc /\ ~nodes'[m].alloc
                    /\ stop # NoLink =>
                        /\ nodes'[stop].alloc
                        /\ nodes'[stop] = [nodes[stop] EXCEPT !.strong = @ - 1]
                        /\ Holders(nodes, lists, stop) >= 2
                    /\ \A m \in NodeIds \ (gone \cup {stop}) : nodes'[m] = nodes[m]

\* C10, over every step: a drop destroys exactly the solely held prefix of the
\* chain and releases one reference to the first shared node.
C10_DropPrefix == [][C10_DropStep]_vars

\* A drop has just destroyed two nodes and stopped at a third, which is still
\* allocated and held.
C10_Witness ==
    /\ last.op = "drop"
    /\ last.ret[1] = 2
    /\ last.ret[2] # NoLink
    /\ nodes[last.ret[2]].alloc
    /\ nodes[last.ret[2]].strong = 1

\* C11: teardown is iterative in every execution, the handles that share a
\* chain being dropped by different threads in any interleaving: a node is
\* destroyed only after the loop of drop detached its next link, so no node is
\* destroyed from inside the destruction of its predecessor (the destruction
\* nests at most one node deep). Stated on the threads inside drop: none has
\* destroyed a second node from within the drop glue of a first.
C11_NoCascade ==
    \A d \in Threads : drops[d].depth <= 1

\* C12: concurrent release is safe. With handles on overlapping chains dropped
\* by different threads, try_unwrap and the release of a reference being
\* separate atomic steps, in every interleaving: a node is destroyed by a step
\* only when the thread destroying it holds the one reference to it, nothing
\* refers to it afterwards, and its identity is never allocated again (it is
\* destroyed once); no thread, handle or node ever holds a link to a destroyed
\* node; and every allocated node is reachable from a handle or from a thread
\* inside drop, so none remains once all drops have finished.
C12_Step ==
    \A n \in NodeIds :
        /\ (nodes[n].alloc /\ ~nodes'[n].alloc) =>
            /\ Refs(nodes, lists, drops, n) = 1
            /\ \E d \in Threads : drops[d].head = n
            /\ Refs(nodes', lists', drops', n) = 0
        /\ (~nodes[n].alloc /\ nodes'[n].alloc) => n > created

C12_State ==
    /\ \A d \in Threads :
        drops[d].head # NoLink => nodes[drops[d].head].alloc
    /\ \A h \in Handles :
        lists[h].head # NoLink => nodes[lists[h].head].alloc
    /\ \A n \in Allocated :
        nodes[n].next # NoLink => nodes[nodes[n].next].alloc
    /\ Allocated \subseteq
         UNION ({Reach(nodes, lists[h].head) : h \in Handles}
                \cup {Reach(nodes, drops[d].head) : d \in Threads})
    /\ (Handles = {} /\ Threads = {}) => Allocated = {}

\* C12, over every step and every state of the threaded drops.
C12_ConcurrentRelease == [][C12_Step]_vars /\ []C12_State

\* Two threads both failed try_unwrap on the node they share, and the one that
\* released last has destroyed it and its successor: all three nodes ever made
\* are gone, and the thread is about to return.
C12_Witness ==
    /\ created = 3
    /\ Allocated = {}
    /\ \E d \in Threads : drops[d].pc = "glue" /\ drops[d].depth = 2

\* C13: an exhausted reader is terminal and idempotent. A next() returns None
\* only on a reader whose self.next is None and leaves it None; a next() on such
\* a reader returns None and changes neither that reader nor anything else (the
\* record of the call apart); the reader stays so through every other call, for
\* as long as it is in scope; and next() can be called on every reader in every
\* state.
C13_Step ==
    /\ last'.op = "next" =>
        \A r \in Readers :
            IterNext(r) =>
                /\ last'.ret = None <=> iters[r].next = NoLink
                /\ iters[r].next = NoLink =>
                    /\ iters' = iters
                    /\ IterStep(nodes', iters'[r].next).ret = None
                    /\ UNCHANGED <<nodes, created, lists, built, yielded>>
    /\ \A r \in Readers :
        iters[r].next = NoLink =>
            IF last'.op = "enditer"
            THEN \A q \in Readers \ {r} :
                    IterDrop(q) => iters'[After(r, q)].next = NoLink
            ELSE iters'[r].next = NoLink

C13_Total == \A r \in Readers : ENABLED IterNext(r)

\* C13, over every step and every state.
C13_ExhaustedTerminal == [][C13_Step]_vars /\ []C13_Total

\* next() has just returned None on a reader that had yielded both elements of
\* its list, while the other reader in scope is not exhausted.
C13_Witness ==
    /\ last.op = "next"
    /\ last.ret = None
    /\ Len(iters) = 2
    /\ \E r \in Readers :
        /\ iters[r].next = NoLink
        /\ Len(yielded[r]) = 2
        /\ \A q \in Readers \ {r} : iters[q].next # NoLink

\* C14: readers are independent and non-intrusive. iter() gives a reader placed
\* on the head of its list, whatever the other readers have reached, and
\* changes no other reader; next() on one reader changes no other reader and
\* nothing the others have yielded; neither changes a handle, a node's element,
\* next link or reference count, or allocates; and in every state, whatever the
\* interleaving of the calls, what a reader has yielded followed by what it has
\* yet to yield is the full sequence of its own list, in order.
C14_Step ==
    /\ last'.op = "iter" =>
        \A s \in Handles :
            ListIter(s) =>
                /\ Len(iters') = Len(iters) + 1
                /\ SubSeq(iters', 1, Len(iters)) = iters
                /\ SubSeq(yielded', 1, Len(iters)) = yielded
                /\ iters'[Len(iters')] = [next |-> lists[s].head, of |-> s]
                /\ IterElems(nodes', iters'[Len(iters')].next)
                     = IterElems(nodes, lists[s].head)
                /\ UNCHANGED <<nodes, created, lists>>
    /\ last'.op = "next" =>
        \A r \in Readers :
            IterNext(r) =>
                /\ \A q \in Readers \ {r} :
                    iters'[q] = iters[q] /\ yielded'[q] = yielded[q]
                /\ DOMAIN iters' = DOMAIN iters
                /\ UNCHANGED <<nodes, created, lists>>

C14_State ==
    \A r \in Readers :
        yielded[r] \o IterElems(nodes, iters[r].next)
            = IterElems(nodes, lists[iters[r].of].head)

\* C14, over every step and every state.
C14_ReadersIndependent == [][C14_Step]_vars /\ []C14_State

\* Two readers over two different lists that overlap (the head node of one is
\* the second node of the other): the reader of the shorter list has yielded
\* all of it, the reader of the longer one has yielded its first element only
\* and stands on the shared node.
C14_Witness ==
    \E r, q \in Readers :
        LET hr == lists[iters[r].of].head
            hq == lists[iters[q].of].head
        IN  /\ r # q
            /\ hr # NoLink /\ hq # NoLink /\ hr # hq
            /\ nodes[hq].next = hr
            /\ iters[r].next = NoLink
            /\ yielded[r] = IterElems(nodes, hr)
            /\ iters[q].next = hr
            /\ Len(yielded[q]) = 1

\* C15: in every reachable state the node graph is acyclic and finite. The
\* next link of every allocated node is None or a node created strictly before
\* it (identities are given in order of creation), and the chain followed
\* from the head of any handle ends at a None link after no more nodes than
\* were ever created, none of them met twice.
C15_Acyclic ==
    /\ \A n \in Allocated :
        nodes[n].next = NoLink \/ (nodes[n].next < n /\ nodes[n].next \in NodeIds)
    /\ \A h \in Handles :
        LET c == Chain(nodes, lists[h].head) IN
        /\ Len(c) <= created
        /\ \A i, j \in 1..Len(c) : i < j => c[i] > c[j]
        /\ c # <<>> => nodes[c[Len(c)]].next = NoLink
        /\ NthTail(nodes, lists[h].head, Len(c)) = NoLink

\* A handle holds a chain of three nodes while another handle holds a chain
\* that joins it at its second node.
C15_Witness ==
    /\ \E h \in Handles : Len(Chain(nodes, lists[h].head)) = 3
    /\ \E h, g \in Handles :
        /\ lists[h].head = 3
        /\ lists[g].head = 2
        /\ nodes[3].next = 2

\* C16: no operation changes the element or the next link of an existing node.
\* Over every step, a node that is allocated before the step and after it has
\* the same element and the same next link; a node is never allocated again
\* once destroyed; so every node keeps what it was built with from its
\* construction to its destruction (drop takes the next link only of a node
\* that try_unwrap has moved out of its Arc, within the step that destroys it).
C16_Step ==
    \A n \in NodeIds :
        /\ (nodes[n].alloc /\ nodes'[n].alloc) =>
            /\ nodes'[n].elem = nodes[n].elem
            /\ nodes'[n].next = nodes[n].next
        /\ (~nodes[n].alloc /\ nodes'[n].alloc) => n = created + 1

\* C16, over every step.
C16_NodesImmutable == [][C16_Step]_vars

\* A drop has just destroyed the head of a chain and stopped at a shared node,
\* which is still allocated and still links to its successor.
C16_Witness ==
    /\ last.op = "drop"
    /\ last.ret[1] = 1
    /\ last.ret[2] # NoLink
    /\ nodes[last.ret[2]].alloc
    /\ nodes[last.ret[2]].next # NoLink
    /\ nodes[nodes[last.ret[2]].next].alloc

\* C17: reference-count accounting. In every reachable state the strong count
\* of every node is the number of live handles whose head it is, plus the number
\* of allocated nodes whose next link it is, plus the number of drops in
\* progress that hold it as their local current link; and a node is allocated
\* exactly when that count is at least one.
C17_CountAccounting ==
    \A n \in NodeIds :
        /\ nodes[n].strong = Refs(nodes, lists, drops, n)
        /\ nodes[n].alloc <=> nodes[n].strong >= 1
        /\ nodes[n].alloc <=> Refs(nodes, lists, drops, n) >= 1

\* Two threads inside drop each hold, from a failed try_unwrap, a reference to
\* the same node, which no handle holds: its count is two, and it has a
\* successor counted once, for its next link.
C17_Witness ==
    \E d, t \in Threads :
        /\ d # t
        /\ drops[d].pc = "err" /\ drops[t].pc = "err"
        /\ drops[d].head = drops[t].head
        /\ nodes[drops[d].head].strong = 2
        /\ Holders(nodes, lists, drops[d].head) = 0
        /\ nodes[drops[d].head].next # NoLink
        /\ nodes[nodes[drops[d].head].next].strong = 1

\* C18: iter and tail/head agree. For every held list L, n being the first k at
\* which L after k successive tail() calls has head() = None: for every k < n
\* the (k+1)-th next() of L.iter() returns Some of an element, the one head()
\* gives on L after k tail() calls; and the (n+1)-th next() is the first to
\* return None. n is the length of L (the number of nodes of its chain).
C18_IterAgreesWithTail ==
    \A h \in Handles :
        LET hd == lists[h].head
            ks == {k \in 0..(MaxNodes + 1) :
                      HeadOf(nodes, NthTail(nodes, hd, k)) = None}
            n == CHOOSE k \in ks : \A j \in ks : k <= j
        IN  /\ ks # {}
            /\ n = Len(Chain(nodes, hd))
            /\ \A k \in 0..(n - 1) :
                /\ IterRetN(nodes, hd, k) # None
                /\ IterRetN(nodes, hd, k) = HeadOf(nodes, NthTail(nodes, hd, k))
                /\ IterElems(nodes, hd)[k + 1] = IterRetN(nodes, hd, k)[1]
            /\ IterRetN(nodes, hd, n) = None
            /\ Len(IterElems(nodes, hd)) = n

\* tail() was just called on a list of three elements, the first two of them
\* different: the handle it returned holds the list's second node.
C18_Witness ==
    /\ last.op = "tail"
    /\ \E h \in Handles :
        /\ h < Len(lists)
        /\ Len(IterElems(nodes, lists[h].head)) = 3
        /\ IterElems(nodes, lists[h].head)[1] # IterElems(nodes, lists[h].head)[2]
        /\ lists[Len(lists)].head = nodes[lists[h].head].next

\* C19: every drop terminates, other handles being dropped at the same time or
\* not. A call of drop on a chain of n nodes has made at most n iterations of
\* its loop, each on a node of its chain further down than the one before (the
\* iterations made and the nodes left to visit never number more than n); the
\* nodes it destroys, in the loop or after the break, are nodes of its chain;
\* it never waits for another thread; its handle's head is None from the
\* take() on; and once a drop has begun, a drop returns.
C19_State ==
    /\ \A d \in Threads :
        LET t == drops[d]
            left == Len(Chain(nodes, t.head))
        IN  /\ t.self = NoLink
            /\ t.steps <= t.len
            /\ t.pc = "loop" => t.steps + left <= t.len
            /\ t.pc = "err" => t.steps - 1 + left <= t.len
            /\ t.pc = "glue" => t.steps - 1 + t.depth + left <= t.len
            /\ ENABLED ThreadStep(d)
    /\ last.op = "dropped" =>
        /\ last.ret[1] = NoLink
        /\ last.ret[2] <= last.ret[3]

C19_Begun == last.op = "take"

C19_Returned == last.op = "dropped"

\* C19, over every state, and from every begin of a drop on.
C19_DropTerminates == []C19_State /\ (C19_Begun ~> C19_Returned)

\* A drop has returned after three iterations on a chain of three nodes, all
\* destroyed, while another thread is inside drop.
C19_Witness ==
    /\ last.op = "dropped"
    /\ last.ret = <<NoLink, 3, 3>>
    /\ Allocated = {}
    /\ Threads # {}

====
